---- MODULE Spec2Model ----
(***************************************************************************)
(* diff-sampler (examples/diff-sampler/diff-sampler.cc): main, the pcap    *)
(* callback packetHandler and the protocol demultiplexer get_payload,      *)
(* as a state machine over the global counters.                            *)
(*                                                                         *)
(* A packet is the pair the capture library hands to the callback: the     *)
(* captured bytes (data, caplen = Len(data)) and the declared on-wire      *)
(* length len (pkthdr->len).  get_payload never looks at caplen, so every  *)
(* access at an offset >= caplen is undefined behaviour; it is modelled    *)
(* as a choice between a fault and a stale byte (the record env).          *)
(***************************************************************************)
EXTENDS Integers, Sequences, FiniteSets, TLC

VARIABLES pc, exit_code, out, aut1, aut2, descr, cnt, packet_lengths, ticks,
          delivered, last, obs, swapped, twin

vars == <<pc, exit_code, out, aut1, aut2, descr, cnt, packet_lengths, ticks,
          delivered, last, obs, swapped, twin>>

\* ------------------------------------------------------------- bounds
\* frames the capture source delivers in one run
MaxFrames == 2
\* headers chained behind the network header in a generated frame
MaxChain == 3
\* bytes readable from the packet pointer before a read leaves mapped memory
MemSize == 128
\* bytes behind the TCP header in the frames of SpecTcp
MaxPayload == 2

\* ------------------------------------------- constants of the system headers
ETHERTYPE_VLAN == 33024
ETHERTYPE_IP == 2048
ETHERTYPE_IPV6 == 34525
ETHERTYPE_ARP == 2054

IPPROTO_ICMP == 1
IPPROTO_IPIP == 4
IPPROTO_TCP == 6
IPPROTO_UDP == 17
IPPROTO_IPV6 == 41
IPPROTO_FRAGMENT == 44
IPPROTO_GRE == 47
IPPROTO_ESP == 50
IPPROTO_ICMPV6 == 58
IPPROTO_NONE == 59
IPPROTO_OSPF == 89
IPPROTO_PIM == 103

SizeofEtherHeader == 14
SizeofVlanEthhdr == 18
SizeofIp == 20
SizeofIp6Hdr == 40
SizeofUdphdr == 8
SizeofIcmphdr == 8
SizeofIcmp6Hdr == 8
SizeofIp6Frag == 8
SizeofEsp == 8
\* the fixed part of struct tcphdr
SizeofTcphdr == 20
\* offsets of the fields get_payload reads, from the start of their header
OffEtherType == 12
OffVlanEtherType == 16
OffIpP == 9
OffIp6Nxt == 6
OffThOff == 12
OffIp6fNxt == 0
\* std::vector<size_t> packet_lengths(2048)
PacketLengthsSize == 2048
\* the progress tick interval
TickInterval == 1000

Max(a, b) == IF a >= b THEN a ELSE b

\* ------------------------------------------------------------- counters
CounterNames ==
  { "total_packets", "payloaded_packets", "vlan_packets", "ipv4_packets",
    "ipv6_packets", "tcp_packets", "udp_packets", "ipip_packets",
    "esp_packets", "icmp_packets", "gre_packets", "icmp6_packets",
    "v6_fragment_packets", "ip6_in_ip4_packets", "pim_packets",
    "other_l3_packets", "other_l4_packets", "incons_packets",
    "accepted_aut1", "accepted_aut2" }

ZeroCounters == [k \in CounterNames |-> 0]

\* ++counter
Inc(c, k) == [c EXCEPT ![k] = @ + 1]

\* --------------------------------------------------- frames (the inputs)
Zeros(n) == [i \in 1..n |-> 0]

\* struct ether_header: two addresses, then the 16 bit type in network order
EtherBytes(etype) ==
  [Zeros(SizeofEtherHeader) EXCEPT ![OffEtherType + 1] = etype \div 256,
                                   ![OffEtherType + 2] = etype % 256]

\* struct vlan_ethhdr: h_vlan_proto = 0x8100, the TCI, then the inner type
VlanBytes(etype) ==
  [Zeros(SizeofVlanEthhdr) EXCEPT ![OffEtherType + 1] = ETHERTYPE_VLAN \div 256,
                                  ![OffEtherType + 2] = ETHERTYPE_VLAN % 256,
                                  ![OffVlanEtherType + 1] = etype \div 256,
                                  ![OffVlanEtherType + 2] = etype % 256]

\* struct ip: version/IHL 0x45, ip_p at byte 9
IpBytes(p) == [Zeros(SizeofIp) EXCEPT ![1] = 69, ![OffIpP + 1] = p]

\* struct ip6_hdr: version 6, ip6_nxt at byte 6
Ip6Bytes(n) == [Zeros(SizeofIp6Hdr) EXCEPT ![1] = 96, ![OffIp6Nxt + 1] = n]

\* struct tcphdr: th_off is the high nibble of byte 12; the header is
\* th_off * 4 bytes long (at least the 20 fixed bytes are on the wire)
TcpBytes(thoff) ==
  [Zeros(Max(thoff * 4, SizeofTcphdr)) EXCEPT ![OffThOff + 1] = thoff * 16]

\* struct ip6_frag: ip6f_nxt is the first byte
FragBytes(n) == [Zeros(SizeofIp6Frag) EXCEPT ![OffIp6fNxt + 1] = n]

ChainProtos == {IPPROTO_IPIP, IPPROTO_FRAGMENT, IPPROTO_IPV6}

EndProtos ==
  { IPPROTO_TCP, IPPROTO_UDP, IPPROTO_ESP, IPPROTO_ICMP, IPPROTO_GRE,
    IPPROTO_ICMPV6, IPPROTO_PIM, IPPROTO_OSPF }

\* the bytes of the headers named by chain, each chaining header naming the
\* next one (the last chaining header names IPPROTO_NONE)
RECURSIVE L4Bytes(_, _)
L4Bytes(chain, thoff) ==
  IF chain = <<>> THEN <<>>
  ELSE LET p == Head(chain)
           rest == Tail(chain)
           nxt == IF rest = <<>> THEN IPPROTO_NONE ELSE Head(rest)
           hdr == CASE p = IPPROTO_IPIP -> IpBytes(nxt)
                    [] p = IPPROTO_FRAGMENT -> FragBytes(nxt)
                    [] p = IPPROTO_IPV6 -> Ip6Bytes(nxt)
                    [] p = IPPROTO_TCP -> TcpBytes(thoff)
                    [] p \in {IPPROTO_UDP, IPPROTO_ESP, IPPROTO_ICMP,
                              IPPROTO_ICMPV6} -> Zeros(8)
                    [] p \in {IPPROTO_GRE, IPPROTO_PIM} -> Zeros(4)
                    [] OTHER -> <<>>
       IN hdr \o L4Bytes(rest, thoff)

\* a whole frame: link header, network header, the chain, the payload
FrameBytes(d) ==
  (IF d.vlan THEN VlanBytes(d.etype) ELSE EtherBytes(d.etype))
  \o (CASE d.etype = ETHERTYPE_IP -> IpBytes(Head(d.chain))
        [] d.etype = ETHERTYPE_IPV6 -> Ip6Bytes(Head(d.chain))
        [] OTHER -> Zeros(28))
  \o (IF d.etype \in {ETHERTYPE_IP, ETHERTYPE_IPV6}
      THEN L4Bytes(d.chain, d.thoff) ELSE <<>>)
  \o d.payload

\* ------------------------------------------------- the generated frames
Desc(vlan, etype, chain, thoff, payload) ==
  [vlan |-> vlan, etype |-> etype, chain |-> chain, thoff |-> thoff,
   payload |-> payload]

\* x, k times
Repeat(x, k) == [i \in 1..k |-> x]

\* untagged IPv4 carrying each protocol get_payload tells apart
PlainDescs ==
  { Desc(FALSE, ETHERTYPE_IP, <<p>>, 5, <<0, 1>>) :
      p \in EndProtos \cup ChainProtos }

\* tagged frames and IPv6, carrying TCP or UDP
VariantDescs ==
  { Desc(v, e, <<p>>, 5, <<0, 1>>) :
      v \in BOOLEAN, e \in {ETHERTYPE_IP, ETHERTYPE_IPV6},
      p \in {IPPROTO_TCP, IPPROTO_UDP} }

\* a network layer get_payload does not know
OtherL3Descs == { Desc(v, ETHERTYPE_ARP, <<>>, 5, <<>>) : v \in BOOLEAN }

\* tunnels and fragment chains: one to MaxChain - 1 chaining headers of a
\* kind, then UDP
TunnelDescs ==
  { Desc(FALSE, ETHERTYPE_IP, Append(Repeat(x, k), IPPROTO_UDP), 5, <<1, 0>>) :
      x \in ChainProtos, k \in 1..(MaxChain - 1) }

\* payloads of different lengths and first bytes
PayloadDescs ==
  { Desc(FALSE, ETHERTYPE_IP, <<IPPROTO_UDP>>, 5, w) : w \in {<<>>, <<1>>} }

\* the protocols that are counted and not decoded, with another length
UndecodedDescs ==
  { Desc(FALSE, ETHERTYPE_IP, <<p>>, 5, <<>>) :
      p \in {IPPROTO_GRE, IPPROTO_PIM} }

Descs ==
  PlainDescs \cup VariantDescs \cup OtherL3Descs \cup TunnelDescs
  \cup PayloadDescs \cup UndecodedDescs

\* a packet as pcap hands it over: the captured bytes (caplen of them) and
\* pkthdr->len; desc is the frame the bytes were cut from, which the program
\* never sees
Packet(data, len, desc) == [data |-> data, len |-> len, desc |-> desc]

Caplen(p) == Len(p.data)

\* the frame captured whole
Whole(d) == Packet(FrameBytes(d), Len(FrameBytes(d)), d)

\* the frame captured with a snapshot length of n bytes
Snap(d, n) ==
  LET b == FrameBytes(d)
  IN IF n < Len(b) THEN Packet(SubSeq(b, 1, n), Len(b), d)
     ELSE Packet(b, Len(b), d)

\* the frames captured short, and the snapshot lengths they are cut at
SnapDescs ==
  { Desc(FALSE, ETHERTYPE_IP, <<IPPROTO_UDP>>, 5, <<0, 1>>),
    Desc(FALSE, ETHERTYPE_IP, <<IPPROTO_IPIP, IPPROTO_UDP>>, 5, <<1, 0>>),
    Desc(TRUE, ETHERTYPE_IPV6, <<IPPROTO_UDP>>, 5, <<0, 1>>) }

SnapLens == {13, 23, 43}

\* a frame longer than the frame-length table, captured short
JumboPackets ==
  { Packet(FrameBytes(d), PacketLengthsSize, d) :
      d \in {Desc(FALSE, ETHERTYPE_ARP, <<>>, 5, <<>>)} }

Packets ==
  { Whole(d) : d \in Descs }
  \cup { Snap(d, n) : d \in SnapDescs, n \in SnapLens }
  \cup JumboPackets

\* ------------------------------------ reads through the packet pointer
\* what an access past the captured bytes does: it faults, or it yields the
\* stale byte fill (and faults anyway once it leaves the mapped MemSize bytes)
GarbageBytes == {0, IPPROTO_IPIP, IPPROTO_FRAGMENT}

Envs ==
  {[fault |-> TRUE, fill |-> 0]}
  \cup {[fault |-> FALSE, fill |-> g] : g \in GarbageBytes}

Fault == -1

\* *(packet + o)
Read8(p, env, o) ==
  IF o < Caplen(p) THEN p.data[o + 1]
  ELSE IF env.fault \/ o >= MemSize THEN Fault
  ELSE env.fill

\* ntohs of the 16 bit field at packet + o
Read16(p, env, o) ==
  LET hi == Read8(p, env, o)
      lo == Read8(p, env, o + 1)
  IN IF hi = Fault \/ lo = Fault THEN Fault ELSE hi * 256 + lo

\* ------------------------------------------------------- get_payload
\* What one call of get_payload comes to:
\*   st      "word" (it returned), "abort" (assert(false)), "fault" (an access
\*           past the captured bytes faulted)
\*   cnt     the counters as the call leaves them
\*   sliced  it reached the final return Word(packet + offset, ...)
\*   start, end  the offsets of that Word; 0, 0 for Word()
\*   word    the bytes of the Word
\*   iters   the iterations of the while loop
\*   protos  the value of l4_proto each iteration dispatched on
\*   reads   the offsets of the header fields the call read
\*   outer   the ether_type read from the Ethernet header (set by get_payload)
\*   l3type, l3off  the ether_type the network layer was dispatched on and
\*           the offset it was dispatched at (set by get_payload)
\* h is what the call did so far: the protocols dispatched on and the
\* offsets read
Hist(protos, reads) == [protos |-> protos, reads |-> reads]

NoHist == Hist(<<>>, {})

\* one more header field read, at the offsets offs
Looked(h, offs) == Hist(h.protos, h.reads \cup offs)

\* one more iteration of the loop, dispatching on l4_proto
Saw(h, l4_proto) == Hist(Append(h.protos, l4_proto), h.reads)

GpResult(st, c, sliced, start, end, word, h) ==
  [st |-> st, cnt |-> c, sliced |-> sliced, start |-> start, end |-> end,
   word |-> word, iters |-> Len(h.protos), protos |-> h.protos,
   reads |-> h.reads, outer |-> 0, l3type |-> 0, l3off |-> 0]

\* return Word();
EmptyWord(c, h) == GpResult("word", c, FALSE, 0, 0, <<>>, h)

\* ++counter k; return Word();
Unprocessed_Uncounted(c, k, h) == EmptyWord(c, h)

Unprocessed(c, k, h) == EmptyWord(Inc(c, k), h)

Faulted(c, h) == GpResult("fault", c, FALSE, 0, 0, <<>>, h)

Aborted(c, h) == GpResult("abort", c, FALSE, 0, 0, <<>>, h)

\* return Word(packet + offset, packet + std::max(len, offset));
Slice(p, env, c, offset, h) ==
  LET end == Max(p.len, offset)
      word == [i \in 1..(end - offset) |-> Read8(p, env, offset + i - 1)]
  IN IF \E i \in 1..(end - offset) : word[i] = Fault
     THEN Faulted(c, h)
     ELSE GpResult("word", c, TRUE, offset, end, word, h)

\* a TCP header that always takes the 20 fixed bytes
TcpHdrSize_Fixed(b) == SizeofTcphdr

\* size_t tcp_hdr_size = tcp_hdr->th_off * 4; b is the byte holding th_off
TcpHdrSize(b) == (b \div 16) * 4

\* the while (processing) loop: one call is one iteration
RECURSIVE L4Loop(_, _, _, _, _, _, _)
L4Loop(p, env, c, offset, l4_proto, ip_in_ip, h) ==
  LET n == Saw(h, l4_proto)
  IN CASE l4_proto = IPPROTO_TCP ->
            LET b == Read8(p, env, offset + OffThOff)
                tcp_hdr_size == TcpHdrSize(b)
                m == Looked(n, {offset + OffThOff})
            IN IF b = Fault THEN Faulted(Inc(c, "tcp_packets"), m)
               ELSE Slice(p, env, Inc(c, "tcp_packets"),
                          offset + tcp_hdr_size, m)
       [] l4_proto = IPPROTO_UDP ->
            Slice(p, env, Inc(c, "udp_packets"), offset + SizeofUdphdr, n)
       [] l4_proto = IPPROTO_IPIP ->
            LET b == Read8(p, env, offset + OffIpP)
                m == Looked(n, {offset + OffIpP})
            IN IF ip_in_ip THEN Aborted(Inc(c, "ipip_packets"), n)
               ELSE IF b = Fault THEN Faulted(Inc(c, "ipip_packets"), m)
               ELSE L4Loop(p, env, Inc(c, "ipip_packets"), offset + SizeofIp,
                           b, TRUE, m)
       [] l4_proto = IPPROTO_ESP ->
            Slice(p, env, Inc(c, "esp_packets"), offset + SizeofEsp, n)
       [] l4_proto = IPPROTO_ICMP ->
            Slice(p, env, Inc(c, "icmp_packets"), offset + SizeofIcmphdr, n)
       [] l4_proto = IPPROTO_GRE ->
            Unprocessed(c, "gre_packets", n)
       [] l4_proto = IPPROTO_ICMPV6 ->
            Slice(p, env, Inc(c, "icmp6_packets"), offset + SizeofIcmp6Hdr, n)
       [] l4_proto = IPPROTO_FRAGMENT ->
            LET b == Read8(p, env, offset + OffIp6fNxt)
                m == Looked(n, {offset + OffIp6fNxt})
            IN IF b = Fault THEN Faulted(Inc(c, "v6_fragment_packets"), m)
               ELSE L4Loop(p, env, Inc(c, "v6_fragment_packets"),
                           offset + SizeofIp6Frag, b, ip_in_ip, m)
       [] l4_proto = IPPROTO_IPV6 ->
            \* l4_proto = ip_hdr->ip6_nxt is read, processing stays false
            LET b == Read8(p, env, offset + OffIp6Nxt)
                m == Looked(n, {offset + OffIp6Nxt})
            IN IF b = Fault THEN Faulted(Inc(c, "ip6_in_ip4_packets"), m)
               ELSE Slice(p, env, Inc(c, "ip6_in_ip4_packets"),
                          offset + SizeofIp6Hdr, m)
       [] l4_proto = IPPROTO_PIM ->
            Unprocessed(c, "pim_packets", n)
       [] OTHER ->
            Unprocessed(c, "other_l4_packets", n)

\* L3 without the ++ipv6_packets of line 212
L3_Ipv6Uncounted(p, env, c, offset, ether_type, h) ==
  CASE ether_type = ETHERTYPE_IP ->
         LET b == Read8(p, env, offset + OffIpP)
             m == Looked(h, {offset + OffIpP})
         IN IF b = Fault THEN Faulted(Inc(c, "ipv4_packets"), m)
            ELSE L4Loop(p, env, Inc(c, "ipv4_packets"), offset + SizeofIp,
                        b, FALSE, m)
    [] ether_type = ETHERTYPE_IPV6 ->
         LET b == Read8(p, env, offset + OffIp6Nxt)
             m == Looked(h, {offset + OffIp6Nxt})
         IN IF b = Fault THEN Faulted(c, m)
            ELSE L4Loop(p, env, c, offset + SizeofIp6Hdr,
                        b, FALSE, m)
    [] OTHER -> Unprocessed(c, "other_l3_packets", h)

\* the dispatch on ether_type
L3(p, env, c, offset, ether_type, h) ==
  CASE ether_type = ETHERTYPE_IP ->
         LET b == Read8(p, env, offset + OffIpP)
             m == Looked(h, {offset + OffIpP})
         IN IF b = Fault THEN Faulted(Inc(c, "ipv4_packets"), m)
            ELSE L4Loop(p, env, Inc(c, "ipv4_packets"), offset + SizeofIp,
                        b, FALSE, m)
    [] ether_type = ETHERTYPE_IPV6 ->
         LET b == Read8(p, env, offset + OffIp6Nxt)
             m == Looked(h, {offset + OffIp6Nxt})
         IN IF b = Fault THEN Faulted(Inc(c, "ipv6_packets"), m)
            ELSE L4Loop(p, env, Inc(c, "ipv6_packets"), offset + SizeofIp6Hdr,
                        b, FALSE, m)
    [] OTHER -> Unprocessed(c, "other_l3_packets", h)

\* get_payload without the ++vlan_packets of line 189
get_payload_VlanUncounted(p, env, c) ==
  LET outer == Read16(p, env, OffEtherType)
      inner == Read16(p, env, OffVlanEtherType)
      h1 == Looked(NoHist, {OffEtherType, OffEtherType + 1})
      h2 == Looked(h1, {OffVlanEtherType, OffVlanEtherType + 1})
      tagged == outer = ETHERTYPE_VLAN
      res == IF outer = Fault THEN Faulted(c, h1)
             ELSE IF tagged
             THEN IF inner = Fault THEN Faulted(c, h2)
                  ELSE L3(p, env, c, SizeofVlanEthhdr, inner, h2)
             ELSE L3(p, env, c, SizeofEtherHeader, outer, h1)
  IN [res EXCEPT !.outer = outer,
                 !.l3type = IF tagged THEN inner ELSE outer,
                 !.l3off = IF tagged THEN SizeofVlanEthhdr
                           ELSE SizeofEtherHeader]

\* the link layer: the ether_type, and behind the VLAN tag the inner one;
\* outer, l3type and l3off are kept in the result
get_payload(p, env, c) ==
  LET outer == Read16(p, env, OffEtherType)
      inner == Read16(p, env, OffVlanEtherType)
      h1 == Looked(NoHist, {OffEtherType, OffEtherType + 1})
      h2 == Looked(h1, {OffVlanEtherType, OffVlanEtherType + 1})
      tagged == outer = ETHERTYPE_VLAN
      res == IF outer = Fault THEN Faulted(c, h1)
             ELSE IF tagged
             THEN IF inner = Fault THEN Faulted(Inc(c, "vlan_packets"), h2)
                  ELSE L3(p, env, Inc(c, "vlan_packets"), SizeofVlanEthhdr, inner, h2)
             ELSE L3(p, env, c, SizeofEtherHeader, outer, h1)
  IN [res EXCEPT !.outer = outer,
                 !.l3type = IF tagged THEN inner ELSE outer,
                 !.l3off = IF tagged THEN SizeofVlanEthhdr
                           ELSE SizeofEtherHeader]

\* ------------------------------------------------------ the acceptors
\* the automata the run may load: the language of the words whose first
\* byte is 0x00, and of those whose first byte is 0x01
Acceptors == {"first00", "first01"}

\* is_in_lang(aut, word)
is_in_lang(aut, w) ==
  /\ w # <<>>
  /\ \/ aut = "first00" /\ w[1] = 0
     \/ aut = "first01" /\ w[1] = 1

\* ----------------------------------------------------- packetHandler
\* packet_lengths[n] += 1; the table is kept by the lengths seen, every
\* other entry being 0
Bump(pl, n) ==
  IF n \in DOMAIN pl THEN [pl EXCEPT ![n] = @ + 1] ELSE pl @@ (n :> 1)

\* CountOutcome counting a disagreement only when aut1 accepts
CountOutcome_OneSided(c, in_aut1, in_aut2) ==
  LET c2 == Inc(c, "payloaded_packets")
      c3 == IF in_aut1 THEN Inc(c2, "accepted_aut1") ELSE c2
      c4 == IF in_aut2 THEN Inc(c3, "accepted_aut2") ELSE c3
  IN IF in_aut1 /\ ~in_aut2 THEN Inc(c4, "incons_packets") ELSE c4

\* CountOutcome clearing incons_packets when the answers agree
CountOutcome_Resets(c, in_aut1, in_aut2) ==
  LET c2 == Inc(c, "payloaded_packets")
      c3 == IF in_aut1 THEN Inc(c2, "accepted_aut1") ELSE c2
      c4 == IF in_aut2 THEN Inc(c3, "accepted_aut2") ELSE c3
  IN IF in_aut1 # in_aut2 THEN Inc(c4, "incons_packets")
     ELSE [c4 EXCEPT !["incons_packets"] = 0]

\* CountOutcome without ++payloaded_packets
CountOutcome_NotPayloaded(c, in_aut1, in_aut2) ==
  LET c3 == IF in_aut1 THEN Inc(c, "accepted_aut1") ELSE c
      c4 == IF in_aut2 THEN Inc(c3, "accepted_aut2") ELSE c3
  IN IF in_aut1 # in_aut2 THEN Inc(c4, "incons_packets") ELSE c4

\* lines 336-350: ++payloaded_packets, the acceptance counters, and
\* ++incons_packets when the answers differ
CountOutcome(c, in_aut1, in_aut2) ==
  LET c2 == Inc(c, "payloaded_packets")
      c3 == IF in_aut1 THEN Inc(c2, "accepted_aut1") ELSE c2
      c4 == IF in_aut2 THEN Inc(c3, "accepted_aut2") ELSE c3
  IN IF in_aut1 # in_aut2 THEN Inc(c4, "incons_packets") ELSE c4

\* lines 352-356: the progress tick
Tick(c, tk) == IF c["total_packets"] % TickInterval = 0 THEN tk + 1 ELSE tk

\* What one call of packetHandler comes to:
\*   st   "returned", "abort" or "fault"
\*   cnt, packet_lengths, ticks  the globals as the call leaves them
\*   gp   what get_payload came to (st = "none": it was not called)
\*   asked1, asked2  the words is_in_lang was called with, per automaton
\*   in1, in2  the answers
HResult(st, c, pl, tk, gp, asked1, asked2, in1, in2) ==
  [st |-> st, cnt |-> c, packet_lengths |-> pl, ticks |-> tk, gp |-> gp,
   asked1 |-> asked1, asked2 |-> asked2, in1 |-> in1, in2 |-> in2]

NoGp == GpResult("none", ZeroCounters, FALSE, 0, 0, <<>>, NoHist)

\* packetHandler without the return of lines 331-334
packetHandler_SamplesEmpty(p, env, a1, a2, c, pl, tk) ==
  LET inTable == p.len < PacketLengthsSize
      pl1 == IF inTable THEN Bump(pl, p.len) ELSE pl
      gp == get_payload(p, env, Inc(c, "total_packets"))
      in_aut1 == is_in_lang(a1, gp.word)
      in_aut2 == is_in_lang(a2, gp.word)
      c5 == CountOutcome(gp.cnt, in_aut1, in_aut2)
  IN IF ~inTable /\ env.fault
     THEN HResult("fault", c, pl, tk, NoGp, <<>>, <<>>, FALSE, FALSE)
     ELSE IF gp.st # "word"
     THEN HResult(gp.st, gp.cnt, pl1, tk, gp, <<>>, <<>>, FALSE, FALSE)
     ELSE HResult("returned", c5, pl1, Tick(c5, tk), gp, <<gp.word>>,
                  <<gp.word>>, in_aut1, in_aut2)

\* lines 318-357: the table of lengths, ++total_packets, get_payload, the
\* return on an empty payload, the outcome counters and the tick
packetHandler(p, env, a1, a2, c, pl, tk) ==
  LET inTable == p.len < PacketLengthsSize
      pl1 == IF inTable THEN Bump(pl, p.len) ELSE pl
      gp == get_payload(p, env, Inc(c, "total_packets"))
      in_aut1 == is_in_lang(a1, gp.word)
      in_aut2 == is_in_lang(a2, gp.word)
      c5 == CountOutcome(gp.cnt, in_aut1, in_aut2)
  IN IF ~inTable /\ env.fault
     THEN HResult("fault", c, pl, tk, NoGp, <<>>, <<>>, FALSE, FALSE)
     ELSE IF gp.st # "word"
     THEN HResult(gp.st, gp.cnt, pl1, tk, gp, <<>>, <<>>, FALSE, FALSE)
     ELSE IF gp.word = <<>>
     THEN HResult("returned", gp.cnt, pl1, tk, gp, <<>>, <<>>, FALSE, FALSE)
     ELSE HResult("returned", c5, pl1, Tick(c5, tk), gp, <<gp.word>>,
                  <<gp.word>>, in_aut1, in_aut2)

\* -------------------------------------------------------------- state
\* pc: where main is.  "start", "load", "open", "loop" (inside pcap_loop),
\* "exit" (main returned exit_code), "aborted" (assert(false)), "faulted"
\* (an access outside its object faulted)
\* out: what main has written, by kind of message
\* descr: the pcap_t* of main, "nullptr" or "open"
NoFrame == [desc |-> Desc(FALSE, 0, <<>>, 0, <<>>), caplen |-> 0, len |-> 0]

\* last: the latest callback: its number, the frame it was given (what it
\* was cut from, caplen, pkthdr->len), the counters before it, and what
\* packetHandler came to
NoLast ==
  [n |-> 0, frame |-> NoFrame, before |-> ZeroCounters, st |-> "none",
   gp |-> NoGp, asked1 |-> <<>>, asked2 |-> <<>>, in1 |-> FALSE, in2 |-> FALSE]

\* obs: the frames returned with an empty payload, those among them that
\* reached the final Word with len <= offset, the numbers of the frames
\* that were counted inconsistent, and the frames both automata accepted
NoObs == [empty |-> 0, truncated |-> 0, incons_at |-> {}, both |-> 0]

\* twin: a second run of the program over the same frames (SpecPair), with
\* the same automata, or with the two exchanged when swapped
NoTwin == [st |-> "run", cnt |-> ZeroCounters, incons_at |-> {}]

InitCommon ==
  /\ pc = "start"
  /\ exit_code = "none"
  /\ out = {}
  /\ aut1 = "none"
  /\ aut2 = "none"
  /\ descr = "nullptr"
  /\ cnt = ZeroCounters
  /\ packet_lengths = <<>>
  /\ ticks = 0
  /\ delivered = 0
  /\ last = NoLast
  /\ obs = NoObs
  /\ twin = NoTwin

Init == InitCommon /\ swapped = FALSE

\* main: if (argc != 4) { print_usage; return EXIT_FAILURE; }
Args ==
  /\ pc = "start"
  /\ \E argc \in {3, 4} :
       IF argc # 4
       THEN pc' = "exit" /\ exit_code' = "EXIT_FAILURE" /\ out' = {"usage"}
       ELSE pc' = "load" /\ exit_code' = exit_code /\ out' = out
  /\ UNCHANGED <<aut1, aut2, descr, cnt, packet_lengths, ticks, delivered,
                 last, obs, swapped, twin>>

\* main: aut1 = load_aut(..); aut2 = load_aut(..); the automata are printed.
\* A throw of either load is caught and main returns EXIT_FAILURE
Load ==
  /\ pc = "load"
  /\ \/ \E a1 \in Acceptors, a2 \in Acceptors :
          /\ aut1' = a1
          /\ aut2' = a2
          /\ pc' = "open"
          /\ exit_code' = exit_code
          /\ out' = out \cup {"automata"}
     \/ \E loaded1 \in BOOLEAN, a1 \in Acceptors :
          /\ aut1' = IF loaded1 THEN a1 ELSE aut1
          /\ aut2' = aut2
          /\ pc' = "exit"
          /\ exit_code' = "EXIT_FAILURE"
          /\ out' = out \cup {"Error loading automata"}
  /\ UNCHANGED <<descr, cnt, packet_lengths, ticks, delivered, last, obs,
                 swapped, twin>>

\* Open without the return after the failure message
Open_GoesOn ==
  /\ pc = "open"
  /\ \E opened \in BOOLEAN :
       /\ descr' = IF opened THEN "open" ELSE "nullptr"
       /\ pc' = "loop"
       /\ exit_code' = exit_code
       /\ out' = IF opened THEN out
                 ELSE out \cup {"pcap_open_offline() failed"}
  /\ UNCHANGED <<aut1, aut2, cnt, packet_lengths, ticks, delivered, last,
                 obs, swapped, twin>>

\* main: descr = pcap_open_offline(..); nullptr: return EXIT_FAILURE
Open ==
  /\ pc = "open"
  /\ \E opened \in BOOLEAN :
       IF opened
       THEN descr' = "open" /\ pc' = "loop" /\ exit_code' = exit_code
            /\ out' = out
       ELSE descr' = "nullptr" /\ pc' = "exit"
            /\ exit_code' = "EXIT_FAILURE"
            /\ out' = out \cup {"pcap_open_offline() failed"}
  /\ UNCHANGED <<aut1, aut2, cnt, packet_lengths, ticks, delivered, last,
                 obs, swapped, twin>>

PcAfter(st) ==
  CASE st = "returned" -> "loop"
    [] st = "abort" -> "aborted"
    [] OTHER -> "faulted"

Observe(o, r, n) ==
  [empty |-> IF r.st = "returned" /\ r.gp.word = <<>>
             THEN o.empty + 1 ELSE o.empty,
   truncated |-> IF r.st = "returned" /\ r.gp.word = <<>> /\ r.gp.sliced
                 THEN o.truncated + 1 ELSE o.truncated,
   incons_at |-> IF r.cnt["incons_packets"] # cnt["incons_packets"]
                 THEN o.incons_at \cup {n} ELSE o.incons_at,
   both |-> IF r.in1 /\ r.in2 THEN o.both + 1 ELSE o.both]

\* the effect of one callback on the run
Callback(p, env) ==
  \E r \in {packetHandler(p, env, aut1, aut2, cnt, packet_lengths, ticks)} :
     /\ cnt' = r.cnt
     /\ packet_lengths' = r.packet_lengths
     /\ ticks' = r.ticks
     /\ pc' = PcAfter(r.st)
     /\ delivered' = delivered + 1
     /\ last' = [n |-> delivered + 1,
                 frame |-> [desc |-> p.desc, caplen |-> Caplen(p),
                            len |-> p.len],
                 before |-> cnt, st |-> r.st, gp |-> r.gp,
                 asked1 |-> r.asked1, asked2 |-> r.asked2,
                 in1 |-> r.in1, in2 |-> r.in2]
     /\ obs' = Observe(obs, r, delivered + 1)

\* pcap_loop calls packetHandler with the next frame of the capture
Deliver ==
  /\ pc = "loop"
  /\ delivered < MaxFrames
  /\ \E p \in Packets, env \in Envs : Callback(p, env)
  /\ UNCHANGED <<exit_code, out, aut1, aut2, descr, swapped, twin>>

\* pcap_loop returns a negative value: main returns EXIT_FAILURE
LoopFails ==
  /\ pc = "loop"
  /\ pc' = "exit"
  /\ exit_code' = "EXIT_FAILURE"
  /\ out' = out \cup {"pcap_loop() failed"}
  /\ UNCHANGED <<aut1, aut2, descr, cnt, packet_lengths, ticks, delivered,
                 last, obs, swapped, twin>>

\* pcap_loop returns 0 at the end of the capture: main prints the report
\* and returns EXIT_SUCCESS
Report ==
  /\ pc = "loop"
  /\ pc' = "exit"
  /\ exit_code' = "EXIT_SUCCESS"
  /\ out' = out \cup {"report"}
  /\ UNCHANGED <<aut1, aut2, descr, cnt, packet_lengths, ticks, delivered,
                 last, obs, swapped, twin>>

Next == Args \/ Load \/ Open \/ Deliver \/ LoopFails \/ Report

Spec == Init /\ [][Next]_vars

\* ------------------------------------------ a capture of one TCP frame
\* the values of the 4 bit field th_off
ThOffValues == 0..15

\* n bytes of payload
NBytes(n) == [i \in 1..n |-> (i - 1) % 2]

\* untagged IPv4/TCP, every data offset, 0 to MaxPayload bytes behind the
\* header
TcpDescs ==
  { Desc(FALSE, ETHERTYPE_IP, <<IPPROTO_TCP>>, t, NBytes(n)) :
      t \in ThOffValues, n \in 0..MaxPayload }

TcpPackets == { Whole(d) : d \in TcpDescs }

\* pcap_loop calls packetHandler with the only frame of the capture
DeliverTcp ==
  /\ pc = "loop"
  /\ delivered = 0
  /\ \E p \in TcpPackets, env \in Envs : Callback(p, env)
  /\ UNCHANGED <<exit_code, out, aut1, aut2, descr, swapped, twin>>

NextTcp == Args \/ Load \/ Open \/ DeliverTcp \/ LoopFails \/ Report

SpecTcp == Init /\ [][NextTcp]_vars

\* --------------------------------------- a capture of a thousand frames
\* the frames of SpecTicks: one without a payload, one with
TickDescs ==
  { Desc(FALSE, ETHERTYPE_IP, <<IPPROTO_GRE>>, 5, <<0, 1>>),
    Desc(FALSE, ETHERTYPE_IP, <<IPPROTO_UDP>>, 5, <<0, 1>>) }

\* the capture starts with GRE frames; either frame may come from MaxFrames
\* frames before the TickInterval-th frame on, and the capture ends at most
\* MaxFrames frames behind it
TickPackets(k) ==
  IF k < TickInterval - MaxFrames
  THEN { Whole(d) : d \in {x \in TickDescs : x.chain = <<IPPROTO_GRE>>} }
  ELSE { Whole(d) : d \in TickDescs }

DeliverTick ==
  /\ pc = "loop"
  /\ delivered < TickInterval + MaxFrames
  /\ \E p \in TickPackets(delivered), env \in Envs : Callback(p, env)
  /\ UNCHANGED <<exit_code, out, aut1, aut2, descr, swapped, twin>>

NextTicks == Args \/ Load \/ Open \/ DeliverTick \/ LoopFails \/ Report

SpecTicks == Init /\ [][NextTicks]_vars

\* ------------------------------------------------- two runs side by side
\* the twin run takes the same frame; what its accesses past the captured
\* bytes do is its own (envT)
TwinStep(p, envT) ==
  IF twin.st # "run" THEN twin' = twin
  ELSE \E r \in {packetHandler(p, envT,
                               IF swapped THEN aut2 ELSE aut1,
                               IF swapped THEN aut1 ELSE aut2,
                               twin.cnt, <<>>, 0)} :
         twin' = [st |-> IF r.st = "returned" THEN "run" ELSE r.st,
                  cnt |-> r.cnt,
                  incons_at |->
                    IF r.cnt["incons_packets"] # twin.cnt["incons_packets"]
                    THEN twin.incons_at \cup {delivered + 1}
                    ELSE twin.incons_at]

DeliverPair ==
  /\ pc = "loop"
  /\ delivered < MaxFrames
  /\ \E p \in Packets, env \in Envs, envT \in Envs :
       Callback(p, env) /\ TwinStep(p, envT)
  /\ UNCHANGED <<exit_code, out, aut1, aut2, descr, swapped>>

InitPair == InitCommon /\ swapped \in BOOLEAN

NextPair == Args \/ Load \/ Open \/ DeliverPair \/ LoopFails \/ Report

SpecPair == InitPair /\ [][NextPair]_vars

\* ================================================================ claims
\* between two callbacks, or before the first, or after pcap_loop returned
FrameBoundary == pc \notin {"aborted", "faulted"}

\* what the latest callback added to counter k
Delta(k) == cnt[k] - last.before[k]

B(b) == IF b THEN 1 ELSE 0

L3Names == {"ipv4_packets", "ipv6_packets", "other_l3_packets"}

L4Names ==
  { "tcp_packets", "udp_packets", "ipip_packets", "esp_packets",
    "icmp_packets", "gre_packets", "icmp6_packets", "v6_fragment_packets",
    "ip6_in_ip4_packets", "pim_packets", "other_l4_packets" }

AggregateNames ==
  { "total_packets", "payloaded_packets", "accepted_aut1", "accepted_aut2",
    "incons_packets" }

RECURSIVE SumOver(_, _)
SumOver(f, S) ==
  IF S = {} THEN 0
  ELSE LET k == CHOOSE x \in S : TRUE IN f[k] + SumOver(f, S \ {k})

DeltaSum(S) == SumOver(cnt, S) - SumOver(last.before, S)

\* C1: at every frame boundary ipv4_packets + ipv6_packets +
\* other_l3_packets equals total_packets.
C1_L3SumIsTotal ==
  FrameBoundary => SumOver(cnt, L3Names) = cnt["total_packets"]

\* a tagged IPv6 frame and a frame of an unknown network layer were counted
C1_Witness ==
  /\ pc = "loop"
  /\ cnt["total_packets"] = 2
  /\ cnt["vlan_packets"] = 1
  /\ cnt["ipv6_packets"] = 1
  /\ cnt["other_l3_packets"] = 1

\* C2: at every frame boundary total_packets = payloaded_packets + the
\* frames with an empty payload, and the frames with an empty payload are
\* other_l3 + other_l4 + gre + pim + the frames that reached a data-bearing
\* layer with a declared length not beyond the offset.
C2_EmptyAccounting ==
  FrameBoundary =>
    /\ cnt["total_packets"] = cnt["payloaded_packets"] + obs.empty
    /\ obs.empty = cnt["other_l3_packets"] + cnt["other_l4_packets"]
                   + cnt["gre_packets"] + cnt["pim_packets"] + obs.truncated

\* a GRE frame and a UDP frame with nothing behind the UDP header
C2_Witness ==
  /\ pc = "loop"
  /\ cnt["total_packets"] = 2
  /\ cnt["gre_packets"] = 1
  /\ obs.truncated = 1
  /\ cnt["payloaded_packets"] = 0

\* C3: a non-empty payload returned by get_payload lies inside the frame's
\* buffer (start <= end <= caplen), and it is empty when the declared
\* length is shorter than the computed offset.
C3_PayloadInsideBuffer ==
  (last.st = "returned" /\ last.gp.sliced) =>
    /\ last.gp.word # <<>> =>
         /\ last.gp.start <= last.gp.end
         /\ last.gp.end <= last.frame.caplen
    /\ last.frame.len < last.gp.start => last.gp.word = <<>>

\* C4: a callback adds 1 to payloaded_packets iff the payload is not empty,
\* 1 to accepted_aut1 (accepted_aut2) iff moreover aut1 (aut2) accepts it,
\* 1 to incons_packets iff moreover the answers differ; both automata are
\* asked the payload word, and neither is asked for an empty payload.
C4_OutcomeCounting ==
  last.n > 0 =>
    LET w == last.gp.word
        has == last.st = "returned" /\ w # <<>>
        acc1 == is_in_lang(aut1, w)
        acc2 == is_in_lang(aut2, w)
    IN /\ Delta("payloaded_packets") = B(has)
       /\ Delta("accepted_aut1") = B(has /\ acc1)
       /\ Delta("accepted_aut2") = B(has /\ acc2)
       /\ Delta("incons_packets") = B(has /\ acc1 # acc2)
       /\ last.asked1 = IF has THEN <<w>> ELSE <<>>
       /\ last.asked2 = IF has THEN <<w>> ELSE <<>>

\* scenario D: aut1 takes the words starting with 0x00, aut2 those starting
\* with 0x01, and the payload starts with 0x00
C4_Witness ==
  /\ aut1 = "first00"
  /\ aut2 = "first01"
  /\ last.st = "returned"
  /\ last.gp.word # <<>>
  /\ last.gp.word[1] = 0
  /\ Delta("accepted_aut1") = 1
  /\ Delta("accepted_aut2") = 0
  /\ Delta("incons_packets") = 1

\* C5: over the same frames, the run with the automata exchanged has the
\* same incons_packets, the same inconsistent frames, the same total,
\* payloaded and per-layer counters, and accepted_aut1, accepted_aut2
\* exchanged.
C5_SwapSymmetric ==
  (swapped /\ FrameBoundary) =>
    /\ twin.st = "run"
    /\ twin.incons_at = obs.incons_at
    /\ \A k \in CounterNames \ {"accepted_aut1", "accepted_aut2"} :
         twin.cnt[k] = cnt[k]
    /\ twin.cnt["accepted_aut1"] = cnt["accepted_aut2"]
    /\ twin.cnt["accepted_aut2"] = cnt["accepted_aut1"]

IpipLayers(chain) ==
  Cardinality({i \in DOMAIN chain : chain[i] = IPPROTO_IPIP})

\* C6: get_payload aborts iff its loop meets IP-in-IP a second time within
\* the frame, and for a frame with at most one IP-in-IP layer it returns a
\* (possibly empty) payload.
C6_AbortOnlyOnSecondIpip ==
  last.gp.st # "none" =>
    /\ last.gp.st = "abort" <=> Delta("ipip_packets") = 2
    /\ IpipLayers(last.frame.desc.chain) <= 1 => last.gp.st = "word"

\* the counter of a protocol number in the loop (main, lines 149-159)
CounterOf(proto) ==
  CASE proto = IPPROTO_TCP -> "tcp_packets"
    [] proto = IPPROTO_UDP -> "udp_packets"
    [] proto = IPPROTO_IPIP -> "ipip_packets"
    [] proto = IPPROTO_ESP -> "esp_packets"
    [] proto = IPPROTO_ICMP -> "icmp_packets"
    [] proto = IPPROTO_GRE -> "gre_packets"
    [] proto = IPPROTO_ICMPV6 -> "icmp6_packets"
    [] proto = IPPROTO_FRAGMENT -> "v6_fragment_packets"
    [] proto = IPPROTO_IPV6 -> "ip6_in_ip4_packets"
    [] proto = IPPROTO_PIM -> "pim_packets"
    [] OTHER -> "other_l4_packets"

\* the protocol counters of the layers frame d is made of
LayerCounters(d) ==
  (IF d.vlan THEN {"vlan_packets"} ELSE {})
  \cup { CASE d.etype = ETHERTYPE_IP -> "ipv4_packets"
           [] d.etype = ETHERTYPE_IPV6 -> "ipv6_packets"
           [] OTHER -> "other_l3_packets" }
  \cup { CounterOf(d.chain[i]) : i \in DOMAIN d.chain }
  \cup (IF d.chain # <<>> /\ d.chain[Len(d.chain)] \in ChainProtos
        THEN {CounterOf(IPPROTO_NONE)} ELSE {})

CapturedWhole(f) == f.caplen = f.len /\ f.len = Len(FrameBytes(f.desc))

\* what C7 says of the network layer, the loop and the untraversed layers
C7_PerLayer ==
  /\ DeltaSum(L3Names) = 1
  /\ DeltaSum(L4Names) = last.gp.iters
  /\ Delta("other_l3_packets") = 1 => DeltaSum(L4Names) = 0
  /\ CapturedWhole(last.frame) =>
       \A k \in CounterNames \ AggregateNames :
         Delta(k) > 0 => k \in LayerCounters(last.frame.desc)

\* C7 as stated, on the frames captured whole: a call of get_payload that
\* returns or aborts has added exactly 1 to one counter for the link layer,
\* for the network layer and for every iteration of the loop, and nothing
\* to the counter of a layer it did not traverse.
C7_OneCounterPerLayer ==
  (last.gp.st \in {"word", "abort"} /\ CapturedWhole(last.frame)) =>
    /\ Delta("vlan_packets") = 1
    /\ C7_PerLayer

\* C7 amended: as stated for the network layer and the loop; at the link
\* layer the call adds 1 to vlan_packets when the ether_type it read is the
\* VLAN tag, and to no counter otherwise.
C7_OneCounterPerL3L4Layer ==
  last.gp.st \in {"word", "abort"} =>
    /\ Delta("vlan_packets") = B(last.gp.outer = ETHERTYPE_VLAN)
    /\ C7_PerLayer

\* an untagged frame with two fragment headers before UDP
C7_Witness ==
  /\ last.gp.st = "word"
  /\ last.gp.iters = 3
  /\ Delta("v6_fragment_packets") = 2
  /\ Delta("udp_packets") = 1
  /\ Delta("vlan_packets") = 0

\* C8: no step decreases a counter.
C8_CountersNeverDecrease ==
  [][\A k \in CounterNames : cnt'[k] >= cnt[k]]_vars

\* two frames were counted, the second one after an inconsistent one
C8_Witness ==
  /\ cnt["total_packets"] = 2
  /\ last.before["incons_packets"] = 1
  /\ cnt["payloaded_packets"] = 2
  /\ cnt["incons_packets"] = 1

ConfigError ==
  \/ "Error loading automata" \in out
  \/ "pcap_open_offline() failed" \in out

C9_State ==
  /\ "report" \in out =>
       /\ aut1 \in Acceptors
       /\ aut2 \in Acceptors
       /\ descr = "open"
       /\ pc = "exit"
       /\ exit_code = "EXIT_SUCCESS"
  /\ ConfigError =>
       /\ pc = "exit"
       /\ exit_code = "EXIT_FAILURE"
       /\ "report" \notin out

\* C9: the report is written only with both automata loaded and the capture
\* open, by the step that ends pcap_loop, and no frame is processed after
\* it; after a load or open failure main has returned EXIT_FAILURE and the
\* report is never written.
C9_ReportOnlyAtEnd ==
  [][ /\ C9_State'
      /\ "report" \in out' =>
           /\ delivered' = delivered
           /\ cnt' = cnt
      /\ ("report" \notin out /\ "report" \in out') => pc = "loop"
      /\ ConfigError => "report" \notin out' ]_vars

\* the report was written after two frames
C9_Witness ==
  /\ "report" \in out
  /\ delivered = 2
  /\ cnt["total_packets"] = 2

\* C10: a second run over the same frames with the same automata ends every
\* callback with the same counters.
C10_Deterministic ==
  ~swapped =>
    /\ twin.cnt = cnt
    /\ twin.st = "run" <=> FrameBoundary

\* the offset behind the Ethernet, IPv4 and TCP headers of a frame of
\* TcpDescs, the TCP header being th_off * 4 bytes long
TcpHeadersEnd(d) == SizeofEtherHeader + SizeofIp + d.thoff * 4

\* the bytes the frame carries behind these headers
TcpCarried(f) == f.len - TcpHeadersEnd(f.desc)

C11_Common ==
  /\ last.st = "returned"
  /\ cnt["tcp_packets"] = 1
  /\ last.gp.sliced
  /\ last.gp.start = TcpHeadersEnd(last.frame.desc)
  /\ Len(last.gp.word) = TcpCarried(last.frame)
  /\ last.gp.word = SubSeq(FrameBytes(last.frame.desc), last.gp.start + 1,
                           last.frame.len)

LinkLen(d) == IF d.vlan THEN SizeofVlanEthhdr ELSE SizeofEtherHeader

\* C12: for a frame whose outer IPv4 header names IP-in-IP and whose inner
\* IPv4 header names UDP, get_payload adds 1 to ipip_packets and 1 to
\* udp_packets, does not abort, and returns the payload from behind the
\* link header, the two IPv4 headers and the UDP header up to the declared
\* length.
C12_IpipUdp ==
  ( /\ last.gp.st # "none"
    /\ last.frame.desc.etype = ETHERTYPE_IP
    /\ last.frame.desc.chain = <<IPPROTO_IPIP, IPPROTO_UDP>> ) =>
    /\ Delta("ipip_packets") = 1
    /\ Delta("udp_packets") = 1
    /\ last.gp.st = "word"
    /\ last.gp.sliced
    /\ last.gp.start = LinkLen(last.frame.desc) + SizeofIp + SizeofIp
                       + SizeofUdphdr
    /\ last.gp.end = last.frame.len

\* C13: for a frame whose outer ethertype is the VLAN tag, vlan_packets
\* grows by 1, the network layer is dispatched on the inner ethertype and
\* at the offset behind the VLAN header; for any other frame vlan_packets
\* is unchanged; a VLAN-tagged IPv6/UDP frame adds 1 to vlan_packets,
\* ipv6_packets and udp_packets.
C13_VlanDispatch ==
  last.gp.st # "none" =>
    LET d == last.frame.desc
    IN /\ d.vlan => /\ Delta("vlan_packets") = 1
                    /\ last.gp.l3type = d.etype
                    /\ last.gp.l3off = SizeofVlanEthhdr
       /\ ~d.vlan => Delta("vlan_packets") = 0
       /\ (d.vlan /\ d.etype = ETHERTYPE_IPV6 /\ d.chain = <<IPPROTO_UDP>>) =>
            /\ Delta("ipv6_packets") = 1
            /\ Delta("udp_packets") = 1

\* the loop of the latest call dispatched on protocol x
Reached(x) == \E i \in DOMAIN last.gp.protos : last.gp.protos[i] = x

\* C14: a frame on which the loop reaches GRE (PIM) adds 1 to gre_packets
\* (pim_packets), yields an empty payload, and leaves payloaded_packets,
\* accepted_aut1, accepted_aut2 and incons_packets as they were; the
\* automata are not asked.
C14_GreAndPimUndecoded ==
  \A x \in {IPPROTO_GRE, IPPROTO_PIM} :
    Reached(x) =>
      /\ Delta(IF x = IPPROTO_GRE THEN "gre_packets" ELSE "pim_packets") = 1
      /\ last.st = "returned"
      /\ last.gp.word = <<>>
      /\ ~last.gp.sliced
      /\ \A k \in AggregateNames \ {"total_packets"} : Delta(k) = 0
      /\ last.asked1 = <<>>
      /\ last.asked2 = <<>>

\* a PIM frame with nothing behind its header, after a payloaded frame
C14_Witness ==
  /\ Reached(IPPROTO_PIM)
  /\ last.frame.desc.payload = <<>>
  /\ cnt["pim_packets"] = 1
  /\ last.before["payloaded_packets"] = 1
  /\ cnt["payloaded_packets"] = 1

\* C15: when the loop dispatches on IPv6-in-IPv4 and the call returns, the
\* loop makes a further iteration, dispatching on the next header of the
\* inner IPv6 header.
C15_Ip6InIp4Continues ==
  last.gp.st = "word" =>
    \A i \in DOMAIN last.gp.protos :
      last.gp.protos[i] = IPPROTO_IPV6 => i < Len(last.gp.protos)

\* C16: after the k-th frame the number of ticks emitted is k \div 1000.
C16_TickEveryInterval ==
  FrameBoundary => ticks = cnt["total_packets"] \div TickInterval

\* C17: the loop of a call has made no more iterations than the frame has
\* headers of the shortest kind (8 bytes) when the call ends.
C17_LoopBoundedByLength ==
  last.gp.st # "none" => last.gp.iters * SizeofIp6Frag <= last.frame.len

\* C18: every header field get_payload reads lies inside the captured
\* bytes and inside the declared length.
C18_ReadsInsideFrame ==
  \A o \in last.gp.reads : o < last.frame.caplen /\ o < last.frame.len

\* C19: the index pkthdr->len of the update of packet_lengths is one of the
\* PacketLengthsSize entries, and the update is made in the table.
C19_LengthIndexInTable ==
  last.n > 0 =>
    /\ last.frame.len \in 0..(PacketLengthsSize - 1)
    /\ last.frame.len \in DOMAIN packet_lengths

\* C20: incons_packets <= payloaded_packets <= total_packets,
\* accepted_aut1 <= payloaded_packets, accepted_aut2 <= payloaded_packets,
\* and accepted_aut1 + accepted_aut2 - incons_packets is twice the number
\* of frames both automata accepted.
C20_AggregateOrder ==
  /\ cnt["incons_packets"] <= cnt["payloaded_packets"]
  /\ cnt["payloaded_packets"] <= cnt["total_packets"]
  /\ cnt["accepted_aut1"] <= cnt["payloaded_packets"]
  /\ cnt["accepted_aut2"] <= cnt["payloaded_packets"]
  /\ obs.both >= 0
  /\ cnt["accepted_aut1"] + cnt["accepted_aut2"] - cnt["incons_packets"]
       = 2 * obs.both

\* one frame accepted by both automata and one frame without a payload
C20_Witness ==
  /\ cnt["total_packets"] = 2
  /\ cnt["payloaded_packets"] = 1
  /\ obs.both = 1
  /\ cnt["accepted_aut1"] = 1
  /\ cnt["accepted_aut2"] = 1

====
